---- MODULE Spec2Model ----
(***************************************************************************)
(* The user-order history aggregator of the Econia indexer                 *)
(* (src/rust/aggregator/src/data/user_history.rs).                         *)
(*                                                                         *)
(* The state is the relational store: the six input event tables, the      *)
(* market registrations, the aggregator's four derived tables and its      *)
(* ledger aggregator.aggregated_events.  One tick is one call of           *)
(* process_and_save_internal: one SERIALIZABLE transaction that either     *)
(* commits everything it wrote or, on the first error, nothing.            *)
(***************************************************************************)
EXTENDS Integers, Sequences, FiniteSets, TLC

\* ------------------------------------------------------------------ bounds
MaxEvents == 3
MaxTxn == 2
MaxIdx == 1
MaxSize == 2

Sizes == 1..MaxSize
Addresses == {"A", "B"}
TxnKeys == [txn_version : 1..MaxTxn, event_idx : 0..MaxIdx]

\* The (market_id, order_id) pairs the events name: two orders of market 1,
\* which is registered, and one order of market 2, which is not.
OrderSlots == {<<1, 1>>, <<1, 2>>, <<2, 1>>}

\* Market orders, fills, changes and cancels name orders of market 1 only.
TradedSlots == {slot \in OrderSlots : slot[1] = 1}

\* Option<DateTime<Utc>>::None of last_updated_at; event times are >= 1.
Null == 0

VARIABLES
    fill_events,
    change_order_size_events,
    cancel_order_events,
    place_limit_order_events,
    place_market_order_events,
    place_swap_order_events,
    market_registration_events,
    user_history,
    user_history_limit,
    user_history_market,
    user_history_swap,
    aggregated_events,
    result,
    applied,
    last_indexed_timestamp,
    now,
    completed,
    open,
    stamp_args,
    stamps

inputs == <<fill_events, change_order_size_events, cancel_order_events,
            place_limit_order_events, place_market_order_events,
            place_swap_order_events, market_registration_events>>
derived == <<user_history, user_history_limit, user_history_market,
             user_history_swap, aggregated_events>>
\* The aggregator instance's field; the wall clock (Utc::now, in seconds) and
\* the time at which the last successful tick completed.
timing == <<now, completed>>
\* The arguments and the results of the stamp computations.
stamping == <<stamp_args, stamps>>
vars == <<inputs, derived, result, applied, last_indexed_timestamp, timing, open,
          stamping>>

\* ----------------------------------------------------------- pure helpers
Key(e) == <<e.txn_version, e.event_idx>>

\* The (market_id, order_id) of an event or of a row.
SlotOf(r) == <<r.market_id, r.order_id>>

\* (txn_version, event_idx) order of the store's ORDER BY clause.
KeyLess(a, b) ==
    \/ a.txn_version < b.txn_version
    \/ (a.txn_version = b.txn_version /\ a.event_idx < b.event_idx)

\* Mutant of FillFirst: the event index is compared before the version.
FillFirst_idx_first(fill, change) ==
    \/ fill.event_idx < change.event_idx
    \/ (fill.event_idx = change.event_idx /\ fill.txn_version < change.txn_version)

\* The comparison of the merge loop: the fill goes first iff this holds.
FillFirst(fill, change) ==
    \/ fill.txn_version < change.txn_version
    \/ (fill.txn_version = change.txn_version /\ fill.event_idx < change.event_idx)

\* Number of bits to shift when encoding transaction version.
SHIFT_TXN_VERSION == 64

\* A BigInt is kept as two limbs of 64 bits: its value is hi * 2^64 + lo.
\* to_bigint of a whole number below 2^64 has an empty high limb.
to_bigint(n) == [hi |-> 0, lo |-> n]

\* a | b on the bits of two naturals.
RECURSIVE BitOr(_, _)
BitOr(a, b) ==
    IF a = 0 THEN b
    ELSE IF b = 0 THEN a
    ELSE (IF a % 2 = 1 \/ b % 2 = 1 THEN 1 ELSE 0) + 2 * BitOr(a \div 2, b \div 2)

BigOr(a, b) == [hi |-> BitOr(a.hi, b.hi), lo |-> BitOr(a.lo, b.lo)]

\* n << bits for a BigInt n below 2^64: a shift by 64 bits moves the low limb
\* into the high one, a shift by no bits leaves n as it is.
Shl(n, bits) == IF bits = 64 THEN [hi |-> n.lo, lo |-> 0] ELSE n

\* a < b on the values of two BigInts.
BigLess(a, b) == a.hi < b.hi \/ (a.hi = b.hi /\ a.lo < b.lo)

\* Mutant of limit_txn_event: the transaction version is not shifted.
limit_txn_event_unshifted(txn_version, event_idx) == BigOr(txn_version, event_idx)

\* txn_event of the limit placement loop, on the BigInts of the two columns.
limit_txn_event(txn_version, event_idx) ==
    LET txn == Shl(txn_version, SHIFT_TXN_VERSION)
        event == event_idx
    IN BigOr(txn, event)

\* Mutant of change_txn_event: the operands are taken the other way round.
change_txn_event_swapped(txn_version, event_idx) ==
    BigOr(Shl(event_idx, SHIFT_TXN_VERSION), txn_version)

\* txn_event of aggregate_change, on the BigInts of the two arguments.
change_txn_event(txn_version, event_idx) ==
    LET txn == Shl(txn_version, SHIFT_TXN_VERSION)
        event == event_idx
    IN BigOr(txn, event)

\* last_increase_stamp of a limit placement at (txn_version, event_idx).
PriorityStamp(txn_version, event_idx) ==
    limit_txn_event(to_bigint(txn_version), to_bigint(event_idx))

\* last_increase_stamp of a size increase at (txn_version, event_idx).
IncreaseStamp(txn_version, event_idx) ==
    change_txn_event(to_bigint(txn_version), to_bigint(event_idx))

RECURSIVE OrderBy(_)
OrderBy(S) ==
    IF S = {} THEN <<>>
    ELSE LET m == CHOOSE x \in S : \A y \in S \ {x} : KeyLess(x, y)
         IN <<m>> \o OrderBy(S \ {m})

\* Every order in which a query without ORDER BY may return the rows of S.
RECURSIVE AnyOrder(_)
AnyOrder(S) ==
    IF S = {} THEN {<<>>}
    ELSE UNION {{<<x>> \o s : s \in AnyOrder(S \ {x})} : x \in S}

\* Mutant of NotAggregated: the query lacks the NOT EXISTS filter.
NotAggregated_unfiltered(table, ledger) == table

\* WHERE NOT EXISTS (SELECT * FROM aggregator.aggregated_events WHERE ...)
NotAggregated(table, ledger) ==
    {e \in table : ~\E a \in ledger :
        e.txn_version = a.txn_version /\ e.event_idx = a.event_idx}

\* ------------------------------------------------- the open transaction
\* The transaction's view of the derived tables, whether every statement so
\* far succeeded (ok), the events handled so far in order (applied) and the
\* number of loop iterations started (n).
BeginTx(db) ==
    [user_history |-> db.user_history,
     user_history_limit |-> db.user_history_limit,
     user_history_market |-> db.user_history_market,
     user_history_swap |-> db.user_history_swap,
     aggregated_events |-> db.aggregated_events,
     ok |-> TRUE, applied |-> <<>>, n |-> 0]

\* map_err(..)? : the first error ends the tick with the transaction open.
Err(tx) == [tx EXCEPT !.ok = FALSE]

\* Primary key (market_id, order_id) of user_history and of its extensions.
OrderKeyTaken(table, market_id, order_id) ==
    \E r \in table : r.market_id = market_id /\ r.order_id = order_id

\* Primary key (txn_version, event_idx) of aggregator.aggregated_events.
LedgerKeyTaken(ledger, txn_version, event_idx) ==
    \E a \in ledger : a.txn_version = txn_version /\ a.event_idx = event_idx

\* Head of one loop iteration over event x.  fault = k > 0 makes the store
\* return an error on the first statement of the k-th iteration of the tick.
NextEvent(tx, x, fault) ==
    IF ~tx.ok THEN tx
    ELSE IF tx.n + 1 = fault THEN Err([tx EXCEPT !.n = @ + 1])
    ELSE [tx EXCEPT !.n = @ + 1, !.applied = Append(@, Key(x))]

\* Mutant of mark_as_aggregated: the ledger row is not written.
mark_as_aggregated_skipped(tx, txn_version, event_idx) == tx

mark_as_aggregated(tx, txn_version, event_idx) ==
    IF ~tx.ok THEN tx
    ELSE IF LedgerKeyTaken(tx.aggregated_events, txn_version, event_idx) THEN Err(tx)
    ELSE [tx EXCEPT !.aggregated_events =
              @ \cup {[txn_version |-> txn_version, event_idx |-> event_idx]}]

insert_user_history(tx, x, remaining_size, order_type) ==
    IF ~tx.ok THEN tx
    ELSE IF OrderKeyTaken(tx.user_history, x.market_id, x.order_id) THEN Err(tx)
    ELSE [tx EXCEPT !.user_history = @ \cup
             {[market_id |-> x.market_id,
               order_id |-> x.order_id,
               created_at |-> x.time,
               last_updated_at |-> Null,
               total_filled |-> 0,
               remaining_size |-> remaining_size,
               order_status |-> "open",
               order_type |-> order_type]}]

insert_user_history_limit(tx, x) ==
    IF ~tx.ok THEN tx
    ELSE IF OrderKeyTaken(tx.user_history_limit, x.market_id, x.order_id) THEN Err(tx)
    ELSE [tx EXCEPT !.user_history_limit = @ \cup
             {[market_id |-> x.market_id,
               order_id |-> x.order_id,
               last_increase_stamp |-> PriorityStamp(x.txn_version, x.event_idx)]}]

insert_user_history_market(tx, x) ==
    IF ~tx.ok THEN tx
    ELSE IF OrderKeyTaken(tx.user_history_market, x.market_id, x.order_id) THEN Err(tx)
    ELSE [tx EXCEPT !.user_history_market = @ \cup
             {[market_id |-> x.market_id, order_id |-> x.order_id]}]

insert_user_history_swap(tx, x) ==
    IF ~tx.ok THEN tx
    ELSE IF OrderKeyTaken(tx.user_history_swap, x.market_id, x.order_id) THEN Err(tx)
    ELSE [tx EXCEPT !.user_history_swap = @ \cup
             {[market_id |-> x.market_id, order_id |-> x.order_id,
               max_base |-> x.max_base]}]

\* ------------------------------------------------------------ placements
place_limit_order(tx, x, fault) ==
    LET t0 == NextEvent(tx, x, fault)
        t1 == insert_user_history_limit(t0, x)
        t2 == insert_user_history(t1, x, x.initial_size, "limit")
    IN mark_as_aggregated(t2, x.txn_version, x.event_idx)

place_market_order(tx, x, fault) ==
    LET t0 == NextEvent(tx, x, fault)
        t1 == insert_user_history_market(t0, x)
        t2 == insert_user_history(t1, x, x.size, "market")
    IN mark_as_aggregated(t2, x.txn_version, x.event_idx)

\* Mutant of place_swap_order: max_base is not divided by the lot size.
place_swap_order_undivided(tx, x, fault) ==
    LET t0 == NextEvent(tx, x, fault)
        t1 == insert_user_history_swap(t0, x)
        regs == {m \in market_registration_events : m.market_id = x.market_id}
        t2 == IF ~t1.ok THEN t1
              ELSE IF regs = {} THEN Err(t1)
              ELSE insert_user_history(t1, x, x.max_base, "swap")
    IN mark_as_aggregated(t2, x.txn_version, x.event_idx)

\* Mutant of place_swap_order: a swap of a market without registration gets
\* no user_history row and the tick goes on.
place_swap_order_unregistered_skipped(tx, x, fault) ==
    LET t0 == NextEvent(tx, x, fault)
        t1 == insert_user_history_swap(t0, x)
        regs == {m \in market_registration_events : m.market_id = x.market_id}
        t2 == IF ~t1.ok THEN t1
              ELSE IF regs = {} THEN t1
              ELSE LET market == CHOOSE m \in regs : TRUE
                   IN insert_user_history(t1, x, x.max_base \div market.lot_size, "swap")
    IN mark_as_aggregated(t2, x.txn_version, x.event_idx)

\* fetch_one on market_registration_events fails when there is no row.  The
\* quotient max_base / lot_size is exact: the inputs are whole lots.
place_swap_order(tx, x, fault) ==
    LET t0 == NextEvent(tx, x, fault)
        t1 == insert_user_history_swap(t0, x)
        regs == {m \in market_registration_events : m.market_id = x.market_id}
        t2 == IF ~t1.ok THEN t1
              ELSE IF regs = {} THEN Err(t1)
              ELSE LET market == CHOOSE m \in regs : TRUE
                   IN insert_user_history(t1, x, x.max_base \div market.lot_size, "swap")
    IN mark_as_aggregated(t2, x.txn_version, x.event_idx)

\* ----------------------------------------------------------------- fills
\* Mutant of aggregate_fill: a limit order with a remainder is set to open.
aggregate_fill_reopens(tx, size, order_id, market_id, time) ==
    IF ~tx.ok THEN tx
    ELSE [tx EXCEPT !.user_history =
        {IF r.order_id = order_id /\ r.market_id = market_id
         THEN [r EXCEPT
                 !.remaining_size = r.remaining_size - size,
                 !.total_filled = r.total_filled + size,
                 !.order_status =
                     IF r.order_type = "limit"
                     THEN (IF r.remaining_size - size = 0 THEN "closed"
                           ELSE "open")
                     ELSE "closed",
                 !.last_updated_at = time]
         ELSE r : r \in tx.user_history}]

\* Mutant of aggregate_fill: a limit order closes at or below zero.
aggregate_fill_closes_below_zero(tx, size, order_id, market_id, time) ==
    IF ~tx.ok THEN tx
    ELSE [tx EXCEPT !.user_history =
        {IF r.order_id = order_id /\ r.market_id = market_id
         THEN [r EXCEPT
                 !.remaining_size = r.remaining_size - size,
                 !.total_filled = r.total_filled + size,
                 !.order_status =
                     IF r.order_type = "limit"
                     THEN (IF r.remaining_size - size <= 0 THEN "closed"
                           ELSE r.order_status)
                     ELSE "closed",
                 !.last_updated_at = time]
         ELSE r : r \in tx.user_history}]

aggregate_fill(tx, size, order_id, market_id, time) ==
    IF ~tx.ok THEN tx
    ELSE [tx EXCEPT !.user_history =
        {IF r.order_id = order_id /\ r.market_id = market_id
         THEN [r EXCEPT
                 !.remaining_size = r.remaining_size - size,
                 !.total_filled = r.total_filled + size,
                 !.order_status =
                     IF r.order_type = "limit"
                     THEN (IF r.remaining_size - size = 0 THEN "closed"
                           ELSE r.order_status)
                     ELSE "closed",
                 !.last_updated_at = time]
         ELSE r : r \in tx.user_history}]

\* Mutant of aggregate_fill_for_maker_and_taker: the taker's row is missed.
aggregate_fill_for_maker_only(tx, size, maker_order_id, taker_order_id, market_id, time) ==
    aggregate_fill(tx, size, maker_order_id, market_id, time)

aggregate_fill_for_maker_and_taker(tx, size, maker_order_id, taker_order_id, market_id, time) ==
    aggregate_fill(aggregate_fill(tx, size, maker_order_id, market_id, time),
                   size, taker_order_id, market_id, time)

\* Mutant of FillIsApplied: both copies of a fill are aggregated.
FillIsApplied_always(fill) == TRUE

\* Dedupe: only the copy emitted to the maker's handle is aggregated.
FillIsApplied(fill) == fill.maker_address = fill.emit_address

apply_fill(tx, fill, fault) ==
    LET t0 == NextEvent(tx, fill, fault)
        t1 == IF FillIsApplied(fill)
              THEN aggregate_fill_for_maker_and_taker(
                       t0, fill.size, fill.maker_order_id, fill.taker_order_id,
                       fill.market_id, fill.time)
              ELSE t0
    IN mark_as_aggregated(t1, fill.txn_version, fill.event_idx)

\* --------------------------------------------------------------- changes
\* Mutant of NeedsReordering: a change to the same size counts as an increase.
NeedsReordering_or_equal(order_type, original_size, new_size) ==
    order_type = "limit" /\ original_size <= new_size

\* If it's a limit order and needs reordering.
NeedsReordering(order_type, original_size, new_size) ==
    order_type = "limit" /\ original_size < new_size

\* Mutant of aggregate_change: with no row of the order the updates match no
\* row and the tick goes on.
aggregate_change_zero_rows(tx, new_size, order_id, market_id, time, txn_version, event_idx) ==
    IF ~tx.ok THEN tx
    ELSE LET found == {r \in tx.user_history :
                          r.market_id = market_id /\ r.order_id = order_id}
         IN IF found = {} THEN tx
            ELSE LET record == CHOOSE r \in found : TRUE
                     t1 == IF NeedsReordering(record.order_type,
                                              record.remaining_size, new_size)
                           THEN [tx EXCEPT !.user_history_limit =
                                   {IF l.market_id = market_id /\ l.order_id = order_id
                                    THEN [l EXCEPT !.last_increase_stamp =
                                              IncreaseStamp(txn_version, event_idx)]
                                    ELSE l : l \in tx.user_history_limit}]
                           ELSE tx
                 IN [t1 EXCEPT !.user_history =
                        {IF r.order_id = order_id /\ r.market_id = market_id
                         THEN [r EXCEPT !.last_updated_at = time,
                                        !.remaining_size = new_size]
                         ELSE r : r \in t1.user_history}]

aggregate_change(tx, new_size, order_id, market_id, time, txn_version, event_idx) ==
    IF ~tx.ok THEN tx
    ELSE LET found == {r \in tx.user_history :
                          r.market_id = market_id /\ r.order_id = order_id}
         IN IF found = {} THEN Err(tx)
            ELSE LET record == CHOOSE r \in found : TRUE
                     t1 == IF NeedsReordering(record.order_type,
                                              record.remaining_size, new_size)
                           THEN [tx EXCEPT !.user_history_limit =
                                   {IF l.market_id = market_id /\ l.order_id = order_id
                                    THEN [l EXCEPT !.last_increase_stamp =
                                              IncreaseStamp(txn_version, event_idx)]
                                    ELSE l : l \in tx.user_history_limit}]
                           ELSE tx
                 IN [t1 EXCEPT !.user_history =
                        {IF r.order_id = order_id /\ r.market_id = market_id
                         THEN [r EXCEPT !.last_updated_at = time,
                                        !.remaining_size = new_size]
                         ELSE r : r \in t1.user_history}]

apply_change(tx, change, fault) ==
    LET t0 == NextEvent(tx, change, fault)
        t1 == aggregate_change(t0, change.new_size, change.order_id,
                               change.market_id, change.time,
                               change.txn_version, change.event_idx)
    IN mark_as_aggregated(t1, change.txn_version, change.event_idx)

\* --------------------------------------------------------------- cancels
\* Mutant of cancel_order: an update that matches no row is an error.
cancel_order_known_only(tx, x, fault) ==
    LET t0 == NextEvent(tx, x, fault)
        t1 == IF ~t0.ok THEN t0
              ELSE IF ~OrderKeyTaken(t0.user_history, x.market_id, x.order_id)
              THEN Err(t0)
              ELSE [t0 EXCEPT !.user_history =
                      {IF r.order_id = x.order_id /\ r.market_id = x.market_id
                       THEN [r EXCEPT !.order_status = "cancelled",
                                      !.last_updated_at = x.time]
                       ELSE r : r \in t0.user_history}]
    IN mark_as_aggregated(t1, x.txn_version, x.event_idx)

cancel_order(tx, x, fault) ==
    LET t0 == NextEvent(tx, x, fault)
        t1 == IF ~t0.ok THEN t0
              ELSE [t0 EXCEPT !.user_history =
                      {IF r.order_id = x.order_id /\ r.market_id = x.market_id
                       THEN [r EXCEPT !.order_status = "cancelled",
                                      !.last_updated_at = x.time]
                       ELSE r : r \in t0.user_history}]
    IN mark_as_aggregated(t1, x.txn_version, x.event_idx)

\* ------------------------------------------------------------- the tick
RECURSIVE place_limit_orders(_, _, _)
place_limit_orders(tx, xs, fault) ==
    IF xs = <<>> THEN tx
    ELSE place_limit_orders(place_limit_order(tx, Head(xs), fault), Tail(xs), fault)

RECURSIVE place_market_orders(_, _, _)
place_market_orders(tx, xs, fault) ==
    IF xs = <<>> THEN tx
    ELSE place_market_orders(place_market_order(tx, Head(xs), fault), Tail(xs), fault)

RECURSIVE place_swap_orders(_, _, _)
place_swap_orders(tx, xs, fault) ==
    IF xs = <<>> THEN tx
    ELSE place_swap_orders(place_swap_order(tx, Head(xs), fault), Tail(xs), fault)

\* Step through fill and change events in total order.  fill_index and
\* change_index are the positions of the next unhandled event of each batch.
RECURSIVE merge_fills_and_changes(_, _, _, _, _, _)
merge_fills_and_changes(tx, fills, changes, fill_index, change_index, fault) ==
    IF fill_index > Len(fills) /\ change_index > Len(changes) THEN tx
    ELSE IF /\ fill_index <= Len(fills)
            /\ (change_index > Len(changes)
                \/ FillFirst(fills[fill_index], changes[change_index]))
    THEN merge_fills_and_changes(apply_fill(tx, fills[fill_index], fault),
                                 fills, changes, fill_index + 1, change_index, fault)
    ELSE merge_fills_and_changes(apply_change(tx, changes[change_index], fault),
                                 fills, changes, fill_index, change_index + 1, fault)

RECURSIVE cancel_orders(_, _, _)
cancel_orders(tx, xs, fault) ==
    IF xs = <<>> THEN tx
    ELSE cancel_orders(cancel_order(tx, Head(xs), fault), Tail(xs), fault)

\* transaction.commit(): fault = (number of loaded events) + 1 is an error
\* of the commit itself (a serialization failure, a lost connection).
commit(tx, fault) ==
    IF ~tx.ok THEN tx
    ELSE IF tx.n + 1 = fault THEN Err(tx)
    ELSE tx

\* The batches of the two queries with ORDER BY txn_version, event_idx.
LoadFills(table, ledger) == OrderBy(NotAggregated(table, ledger))
LoadChanges(table, ledger) == OrderBy(NotAggregated(table, ledger))

\* The four queries without ORDER BY return their rows in any order.
LoadCancels(table, ledger) == AnyOrder(NotAggregated(table, ledger))
LoadLimits(table, ledger) == AnyOrder(NotAggregated(table, ledger))
LoadMarkets(table, ledger) == AnyOrder(NotAggregated(table, ledger))
LoadSwaps(table, ledger) == AnyOrder(NotAggregated(table, ledger))

\* Mutant of process_and_save_internal: the cancels are handled before the
\* fills and changes.
process_and_save_internal_cancels_first(db, fills, changes, cancels, limits, markets, swaps, fault) ==
    LET t1 == place_limit_orders(BeginTx(db), limits, fault)
        t2 == place_market_orders(t1, markets, fault)
        t3 == place_swap_orders(t2, swaps, fault)
        t4 == cancel_orders(t3, cancels, fault)
        t5 == merge_fills_and_changes(t4, fills, changes, 1, 1, fault)
    IN commit(t5, fault)

\* The body of the tick on the derived tables db and the six loaded batches;
\* the result is the transaction as it stands at the commit or at the error.
process_and_save_internal(db, fills, changes, cancels, limits, markets, swaps, fault) ==
    LET t1 == place_limit_orders(BeginTx(db), limits, fault)
        t2 == place_market_orders(t1, markets, fault)
        t3 == place_swap_orders(t2, swaps, fault)
        t4 == merge_fills_and_changes(t3, fills, changes, 1, 1, fault)
        t5 == cancel_orders(t4, cancels, fault)
    IN commit(t5, fault)

\* ---------------------------------------------------------- the machine
EventKeys(table) == {Key(e) : e \in table}

AllKeys ==
    EventKeys(fill_events) \cup EventKeys(change_order_size_events)
    \cup EventKeys(cancel_order_events) \cup EventKeys(place_limit_order_events)
    \cup EventKeys(place_market_order_events) \cup EventKeys(place_swap_order_events)

Ledger == {<<a.txn_version, a.event_idx>> : a \in aggregated_events}

\* The keys a tick started now would load.
Pending == AllKeys \ Ledger

\* Position of a key in the chain's history, counted from 0.
KeyIndex(k) == (k.txn_version - 1) * (MaxIdx + 1) + k.event_idx

\* The chain's timestamp of the event at a key.
TimeOf(k) == KeyIndex(k) + 1

\* The processor appends in transaction-version order: the next event stored
\* has the next key of the history.
NewKey(k) ==
    /\ Cardinality(AllKeys) < MaxEvents
    /\ KeyIndex(k) = Cardinality(AllKeys)

Stamped(k, fields) ==
    [txn_version |-> k.txn_version, event_idx |-> k.event_idx, time |-> TimeOf(k)]
        @@ fields

\* No aggregator instance has a transaction open.
Idle == [state |-> "idle"]
Instances == {1, 2}

\* UserHistory::new: last_indexed_timestamp: None.
InitInstance ==
    /\ last_indexed_timestamp = Null
    /\ now = 1
    /\ completed = Null
    /\ open = [i \in Instances |-> Idle]

InitStore ==
    /\ fill_events = {}
    /\ change_order_size_events = {}
    /\ cancel_order_events = {}
    /\ place_limit_order_events = {}
    /\ place_market_order_events = {}
    /\ place_swap_order_events = {}
    /\ market_registration_events = {[market_id |-> 1, lot_size |-> 2]}
    /\ user_history = {}
    /\ user_history_limit = {}
    /\ user_history_market = {}
    /\ user_history_swap = {}
    /\ aggregated_events = {}
    /\ result = "none"
    /\ applied = <<>>

Init ==
    /\ InitStore
    /\ InitInstance
    /\ stamp_args = <<>>
    /\ stamps = <<>>

\* result and applied describe the last tick since the last insertion.
Ingested ==
    /\ result' = "none"
    /\ applied' = <<>>
    /\ UNCHANGED <<market_registration_events, derived>>
    /\ UNCHANGED <<last_indexed_timestamp, timing, open, stamping>>

IngestPlaceLimit ==
    \E k \in TxnKeys, slot \in OrderSlots, s \in Sizes :
        /\ NewKey(k)
        /\ place_limit_order_events' = place_limit_order_events \cup
               {Stamped(k, [market_id |-> slot[1], order_id |-> slot[2],
                            initial_size |-> s])}
        /\ UNCHANGED <<fill_events, change_order_size_events, cancel_order_events,
                       place_market_order_events, place_swap_order_events>>
        /\ Ingested

IngestPlaceMarket ==
    \E k \in TxnKeys, slot \in TradedSlots :
        /\ NewKey(k)
        /\ place_market_order_events' = place_market_order_events \cup
               {Stamped(k, [market_id |-> slot[1], order_id |-> slot[2],
                            size |-> MaxSize])}
        /\ UNCHANGED <<fill_events, change_order_size_events, cancel_order_events,
                       place_limit_order_events, place_swap_order_events>>
        /\ Ingested

\* max_base is a whole number of lots (lot size 2 in the registered market).
IngestPlaceSwap ==
    \E k \in TxnKeys, slot \in OrderSlots :
        /\ NewKey(k)
        /\ place_swap_order_events' = place_swap_order_events \cup
               {Stamped(k, [market_id |-> slot[1], order_id |-> slot[2],
                            max_base |-> 2 * MaxSize])}
        /\ UNCHANGED <<fill_events, change_order_size_events, cancel_order_events,
                       place_limit_order_events, place_market_order_events>>
        /\ Ingested

\* A fill matches two different orders of one market.
IngestFill ==
    \E k \in TxnKeys, maker \in TradedSlots, taker \in TradedSlots, s \in Sizes,
       emit \in Addresses :
        /\ NewKey(k)
        /\ maker[1] = taker[1]
        /\ maker[2] < taker[2]
        /\ fill_events' = fill_events \cup
               {Stamped(k, [market_id |-> maker[1], maker_order_id |-> maker[2],
                            taker_order_id |-> taker[2], size |-> s,
                            maker_address |-> "A", emit_address |-> emit])}
        /\ UNCHANGED <<change_order_size_events, cancel_order_events,
                       place_limit_order_events, place_market_order_events,
                       place_swap_order_events>>
        /\ Ingested

IngestChange ==
    \E k \in TxnKeys, slot \in TradedSlots, s \in Sizes :
        /\ NewKey(k)
        /\ change_order_size_events' = change_order_size_events \cup
               {Stamped(k, [market_id |-> slot[1], order_id |-> slot[2],
                            new_size |-> s])}
        /\ UNCHANGED <<fill_events, cancel_order_events, place_limit_order_events,
                       place_market_order_events, place_swap_order_events>>
        /\ Ingested

IngestCancel ==
    \E k \in TxnKeys, slot \in TradedSlots :
        /\ NewKey(k)
        /\ cancel_order_events' = cancel_order_events \cup
               {Stamped(k, [market_id |-> slot[1], order_id |-> slot[2]])}
        /\ UNCHANGED <<fill_events, change_order_size_events, place_limit_order_events,
                       place_market_order_events, place_swap_order_events>>
        /\ Ingested

\* Mutant of Finish: what the transaction wrote before the error stays.
Finish_partial(tx) ==
    /\ user_history' = tx.user_history
    /\ user_history_limit' = tx.user_history_limit
    /\ user_history_market' = tx.user_history_market
    /\ user_history_swap' = tx.user_history_swap
    /\ aggregated_events' = tx.aggregated_events
    /\ result' = IF tx.ok THEN "ok" ELSE "err"
    /\ applied' = IF tx.ok THEN tx.applied ELSE <<>>

\* Mutant of Finish: the ledger rows are written outside the transaction and
\* stay when it is rolled back.
Finish_ledger_outside(tx) ==
    /\ user_history' = IF tx.ok THEN tx.user_history ELSE user_history
    /\ user_history_limit' = IF tx.ok THEN tx.user_history_limit ELSE user_history_limit
    /\ user_history_market' = IF tx.ok THEN tx.user_history_market ELSE user_history_market
    /\ user_history_swap' = IF tx.ok THEN tx.user_history_swap ELSE user_history_swap
    /\ aggregated_events' = tx.aggregated_events
    /\ result' = IF tx.ok THEN "ok" ELSE "err"
    /\ applied' = IF tx.ok THEN tx.applied ELSE <<>>

\* One call of process_and_save_internal: commit on success, and on an error
\* the transaction is dropped, which rolls it back.
Finish(tx) ==
    /\ user_history' = IF tx.ok THEN tx.user_history ELSE user_history
    /\ user_history_limit' = IF tx.ok THEN tx.user_history_limit ELSE user_history_limit
    /\ user_history_market' = IF tx.ok THEN tx.user_history_market ELSE user_history_market
    /\ user_history_swap' = IF tx.ok THEN tx.user_history_swap ELSE user_history_swap
    /\ aggregated_events' = IF tx.ok THEN tx.aggregated_events ELSE aggregated_events
    /\ result' = IF tx.ok THEN "ok" ELSE "err"
    /\ applied' = IF tx.ok THEN tx.applied ELSE <<>>

\* The derived tables as the store holds them.
Stored ==
    [user_history |-> user_history,
     user_history_limit |-> user_history_limit,
     user_history_market |-> user_history_market,
     user_history_swap |-> user_history_swap,
     aggregated_events |-> aggregated_events]

\* One call by the scheduler: the tick, which leaves last_indexed_timestamp
\* as it is whether it commits or fails.
process_and_save_historical_data ==
    \E cancels \in LoadCancels(cancel_order_events, aggregated_events),
       limits \in LoadLimits(place_limit_order_events, aggregated_events),
       markets \in LoadMarkets(place_market_order_events, aggregated_events),
       swaps \in LoadSwaps(place_swap_order_events, aggregated_events),
       fault \in 0..(Cardinality(Pending) + 1) :
        /\ Finish(process_and_save_internal(
                      Stored,
                      LoadFills(fill_events, aggregated_events),
                      LoadChanges(change_order_size_events, aggregated_events),
                      cancels, limits, markets, swaps, fault))
        /\ UNCHANGED inputs
        /\ UNCHANGED last_indexed_timestamp

\* A tick of the one aggregator instance, the clock standing still.
Tick ==
    /\ process_and_save_historical_data
    /\ UNCHANGED <<timing, open, stamping>>

Next ==
    \/ IngestPlaceLimit
    \/ IngestPlaceMarket
    \/ IngestPlaceSwap
    \/ IngestFill
    \/ IngestChange
    \/ IngestCancel
    \/ Tick

Spec == Init /\ [][Next]_vars

\* ------------------------------------------------- the readiness gate
\* Duration::seconds(5) of ready().
ReadyDelay == 5

\* The clock runs from 1 to MaxClock seconds.
MaxClock == 7

ready ==
    \/ last_indexed_timestamp = Null
    \/ last_indexed_timestamp + ReadyDelay < now

\* A tick at the time now; completed keeps the time of its success.  ready()
\* holds in every state, so a scheduler that asks it first calls the tick in
\* the same states.
TimedTick ==
    /\ process_and_save_historical_data
    /\ now' = now
    /\ completed' = IF result' = "ok" THEN now ELSE completed
    /\ UNCHANGED <<open, stamping>>

\* A second passes.
Advance ==
    /\ now < MaxClock
    /\ now' = now + 1
    /\ UNCHANGED <<inputs, derived, result, applied, last_indexed_timestamp,
                   completed, open, stamping>>

NextReady ==
    \/ IngestPlaceLimit
    \/ TimedTick
    \/ Advance

SpecReady == Init /\ [][NextReady]_vars

\* ------------------------------------------- late market registration
\* The processor stores the registration of market 2, with the lot size of
\* market 1.
RegisterMarket ==
    /\ ~\E m \in market_registration_events : m.market_id = 2
    /\ market_registration_events' =
           market_registration_events \cup {[market_id |-> 2, lot_size |-> 2]}
    /\ result' = "none"
    /\ applied' = <<>>
    /\ UNCHANGED <<fill_events, change_order_size_events, cancel_order_events,
                   place_limit_order_events, place_market_order_events,
                   place_swap_order_events, derived>>
    /\ UNCHANGED <<last_indexed_timestamp, timing, open, stamping>>

NextSwap ==
    \/ IngestPlaceLimit
    \/ IngestPlaceSwap
    \/ RegisterMarket
    \/ Tick

SpecSwap == Init /\ [][NextSwap]_vars

\* ------------------------------------------------- the priority stamp
\* The largest high limb of an event index: an event_idx with a high limb
\* above 0 is 2^64 or more.
MaxHighLimb == 1

\* The (txn_version, event_idx) of an event, the index as a BigInt.
StampEvents ==
    [txn_version : 0..MaxTxn, event_idx : [hi : 0..MaxHighLimb, lo : 0..MaxIdx]]

InitStamp ==
    /\ InitStore
    /\ InitInstance
    /\ stamp_args \in [a : StampEvents, b : StampEvents]
    /\ stamps = <<>>

\* The stamp of an event as the placement loop and as aggregate_change
\* compute it.
StampsOf(e) ==
    [limit |-> limit_txn_event(to_bigint(e.txn_version), e.event_idx),
     change |-> change_txn_event(to_bigint(e.txn_version), e.event_idx)]

ComputeStamps ==
    /\ stamps = <<>>
    /\ stamps' = [a |-> StampsOf(stamp_args.a), b |-> StampsOf(stamp_args.b)]
    /\ UNCHANGED <<inputs, derived, result, applied, last_indexed_timestamp,
                   timing, open, stamp_args>>

NextStamp == ComputeStamps

SpecStamp == InitStamp /\ [][NextStamp]_vars

\* ------------------------------------------------- racing instances
\* The ledger rows an open transaction has inserted.
LedgerWrites(t) == t.tx.aggregated_events \ t.snapshot.aggregated_events

\* An insert of the transaction collides with a row committed since its
\* snapshot was taken.
LedgerConflict(t) ==
    \E a \in LedgerWrites(t) :
        LedgerKeyTaken(aggregated_events, a.txn_version, a.event_idx)

\* Instance i begins a transaction and runs the body of the tick on its
\* snapshot of the store.  An error rolls the transaction back at once.
Begin(i) ==
    /\ open[i] = Idle
    /\ \E cancels \in LoadCancels(cancel_order_events, aggregated_events),
          limits \in LoadLimits(place_limit_order_events, aggregated_events),
          markets \in LoadMarkets(place_market_order_events, aggregated_events),
          swaps \in LoadSwaps(place_swap_order_events, aggregated_events) :
           LET tx == process_and_save_internal(
                         Stored,
                         LoadFills(fill_events, aggregated_events),
                         LoadChanges(change_order_size_events, aggregated_events),
                         cancels, limits, markets, swaps, 0)
           IN IF tx.ok
              THEN /\ open' = [open EXCEPT ![i] =
                                  [state |-> "open", snapshot |-> Stored, tx |-> tx]]
                   /\ UNCHANGED <<result, applied>>
              ELSE /\ result' = "err"
                   /\ applied' = <<>>
                   /\ UNCHANGED open
    /\ UNCHANGED <<inputs, derived, last_indexed_timestamp, timing, stamping>>

\* transaction.commit() of instance i.  It fails when an inserted ledger row
\* collides with a committed one, and the store may fail it for a
\* serialization conflict of its own finding; what a transaction with no
\* event to handle commits is nothing.
Commit(i) ==
    /\ open[i] # Idle
    /\ \E failure \in BOOLEAN :
           LET t == open[i]
               tx == IF failure \/ LedgerConflict(t) THEN Err(t.tx)
                     ELSE IF t.tx.applied = <<>> THEN BeginTx(Stored)
                     ELSE t.tx
           IN Finish(tx)
    /\ open' = [open EXCEPT ![i] = Idle]
    /\ UNCHANGED <<inputs, last_indexed_timestamp, timing, stamping>>

\* The events of the race: limit placements of the largest size in the traded
\* market and fills emitted to the maker's handle.
RacePlaceLimit ==
    /\ IngestPlaceLimit
    /\ \A e \in place_limit_order_events' :
           SlotOf(e) \in TradedSlots /\ e.initial_size = MaxSize

RaceFill ==
    /\ IngestFill
    /\ \A f \in fill_events' : f.emit_address = f.maker_address

NextRace ==
    \/ RacePlaceLimit
    \/ RaceFill
    \/ \E i \in Instances : Begin(i)
    \/ \E i \in Instances : Commit(i)

SpecRace == Init /\ [][NextRace]_vars

\* ================================================================ claims
\* Lexicographic order of two (txn_version, event_idx) keys.
LexLess(j, k) == j[1] < k[1] \/ (j[1] = k[1] /\ j[2] < k[2])

\* The keys of the last committed tick's events, as a set.
AppliedKeys == {applied[i] : i \in 1..Len(applied)}

FillKeys == EventKeys(fill_events)
ChangeKeys == EventKeys(change_order_size_events)
CancelKeys == EventKeys(cancel_order_events)

RowAt(table, slot) == CHOOSE r \in table : SlotOf(r) = slot
HasRow(table, slot) == \E r \in table : SlotOf(r) = slot

\* The fills among keys that are folded into the order at slot: the copies
\* emitted to the maker's handle that name it as maker or as taker.
FoldedFills(keys, slot) ==
    {f \in fill_events :
        /\ Key(f) \in keys
        /\ f.maker_address = f.emit_address
        /\ f.market_id = slot[1]
        /\ (f.maker_order_id = slot[2] \/ f.taker_order_id = slot[2])}

ChangesOf(keys, slot) ==
    {c \in change_order_size_events : Key(c) \in keys /\ SlotOf(c) = slot}

CancelsOf(keys, slot) ==
    {c \in cancel_order_events : Key(c) \in keys /\ SlotOf(c) = slot}

RECURSIVE SumSize(_)
SumSize(fills) ==
    IF fills = {} THEN 0
    ELSE LET f == CHOOSE g \in fills : TRUE IN f.size + SumSize(fills \ {f})

LastOf(events) == CHOOSE e \in events : \A g \in events : ~LexLess(Key(e), Key(g))

\* A step that is a committed tick; the events it handled are Pending.
TickCommitted == UNCHANGED inputs /\ result' = "ok"

\* C1: a tick run when nothing was inserted since the last successful tick
\* leaves the derived tables and the ledger as they were; and every event a
\* committed tick handles was absent from the ledger before it and is in the
\* ledger after it, so that no later tick handles it again.
C1_ReplayIdempotence ==
    [][UNCHANGED inputs =>
          /\ (result = "ok" => UNCHANGED derived)
          /\ (result' = "ok" =>
                 \A i \in 1..Len(applied') :
                     /\ applied'[i] \notin Ledger
                     /\ applied'[i] \in Ledger')]_vars

\* A tick has run again over a log whose fill was folded before.
C1_Witness ==
    /\ result = "ok"
    /\ applied = <<>>
    /\ \E r \in user_history : r.total_filled > 0

\* C3: a tick that fails leaves the derived tables and the ledger as they
\* were, and the events it had loaded are still the ones the next tick loads.
C3_NoPartialCommit ==
    [][(UNCHANGED inputs /\ result' = "err") =>
          (UNCHANGED derived /\ Pending' = Pending)]_vars

\* A tick failed with events to handle, after an earlier tick had committed.
C3_Witness ==
    /\ result = "err"
    /\ Pending # {}
    /\ user_history # {}

\* C5: the fills and changes of one tick are handled in ascending
\* (txn_version, event_idx) order: a fill before a change iff its key is the
\* smaller one, and likewise among fills and among changes.
C5_MergeOrdering ==
    \A i, j \in 1..Len(applied) :
        (i < j /\ applied[i] \in FillKeys \cup ChangeKeys
               /\ applied[j] \in FillKeys \cup ChangeKeys)
            => LexLess(applied[i], applied[j])

\* A committed tick handled a fill before a change of a later transaction
\* whose event index is the smaller one.
C5_Witness ==
    /\ result = "ok"
    /\ \E i, j \in 1..Len(applied) :
          /\ i < j
          /\ applied[i] \in FillKeys
          /\ applied[j] \in ChangeKeys
          /\ applied[i][2] > applied[j][2]

\* C9: a fill emitted to another handle than the maker's changes no row of
\* the derived tables, and the tick that loads it adds its key to the ledger.
C9_FillDedupe ==
    [][TickCommitted =>
          /\ \A f \in fill_events :
                 (Key(f) \in Pending /\ f.maker_address # f.emit_address)
                     => Key(f) \in Ledger'
          /\ \A r \in user_history :
                 (/\ FoldedFills(Pending, SlotOf(r)) = {}
                  /\ ChangesOf(Pending, SlotOf(r)) = {}
                  /\ CancelsOf(Pending, SlotOf(r)) = {})
                     => r \in user_history'
          /\ \A l \in user_history_limit :
                 ChangesOf(Pending, SlotOf(l)) = {} => l \in user_history_limit'
          /\ user_history_market \subseteq user_history_market'
          /\ user_history_swap \subseteq user_history_swap']_vars

\* A committed tick handled only a fill emitted to the other handle, naming
\* an order whose row is still as its placement left it.
C9_Witness ==
    /\ result = "ok"
    /\ Len(applied) = 1
    /\ \E f \in fill_events :
          /\ Key(f) = applied[1]
          /\ f.maker_address # f.emit_address
          /\ \E r \in user_history :
                /\ r.market_id = f.market_id
                /\ r.order_id = f.maker_order_id
                /\ r.total_filled = 0
                /\ r.last_updated_at = Null

\* C7: the fills a tick folds change the rows of their maker and of their
\* taker order alike: total_filled grows and remaining_size shrinks by their
\* sizes, and last_updated_at is the time of the last of them; a row that no
\* folded fill, change or cancel of the tick names is left as it was.
C7_FillApplication ==
    [][TickCommitted =>
          \A r \in user_history :
              LET slot == SlotOf(r)
                  after == RowAt(user_history', slot)
                  folded == FoldedFills(Pending, slot)
                  resized == ChangesOf(Pending, slot) # {}
                  cancelled == CancelsOf(Pending, slot) # {}
              IN /\ HasRow(user_history', slot)
                 /\ after.total_filled = r.total_filled + SumSize(folded)
                 /\ ~resized =>
                        after.remaining_size = r.remaining_size - SumSize(folded)
                 /\ (folded # {} /\ ~resized /\ ~cancelled) =>
                        after.last_updated_at = LastOf(folded).time
                 /\ (folded = {} /\ ~resized /\ ~cancelled) => after = r]_vars

\* A tick that handled one fill alone folded it into the maker's row and into
\* the taker's row, both placed by an earlier tick.
C7_Witness ==
    /\ result = "ok"
    /\ Len(applied) = 1
    /\ \E f \in fill_events :
          /\ Key(f) = applied[1]
          /\ f.maker_address = f.emit_address
          /\ \E m \in user_history, t \in user_history :
                /\ SlotOf(m) = <<f.market_id, f.maker_order_id>>
                /\ SlotOf(t) = <<f.market_id, f.taker_order_id>>
                /\ m.total_filled = f.size /\ m.last_updated_at = f.time
                /\ t.total_filled = f.size /\ t.last_updated_at = f.time

\* C8: a fill folded into a limit order closes it iff the remaining size
\* before the fill minus the fill's size is exactly 0; otherwise, also when
\* the difference is negative, the status stays as it was.
C8_LimitClosing ==
    [][TickCommitted =>
          \A r \in user_history :
              LET slot == SlotOf(r)
                  after == RowAt(user_history', slot)
                  folded == FoldedFills(Pending, slot)
              IN (/\ r.order_type = "limit"
                  /\ Cardinality(folded) = 1
                  /\ ChangesOf(Pending, slot) = {}
                  /\ CancelsOf(Pending, slot) = {})
                     => after.order_status =
                            IF r.remaining_size - LastOf(folded).size = 0
                            THEN "closed" ELSE r.order_status]_vars

\* One fill closed a limit order it filled exactly and left open another it
\* overfilled.
C8_Witness ==
    /\ result = "ok"
    /\ Len(applied) = 1
    /\ applied[1] \in FillKeys
    /\ \E a \in user_history, b \in user_history :
          /\ a.order_type = "limit" /\ b.order_type = "limit"
          /\ a.remaining_size = 0 /\ a.order_status = "closed"
          /\ b.remaining_size < 0 /\ b.order_status = "open"
          /\ a.last_updated_at = b.last_updated_at

\* The size a placement of the tick gave the order at slot.
PlacedSize(keys, slot) ==
    IF \E e \in place_limit_order_events : Key(e) \in keys /\ SlotOf(e) = slot
    THEN (CHOOSE e \in place_limit_order_events :
              Key(e) \in keys /\ SlotOf(e) = slot).initial_size
    ELSE IF \E e \in place_market_order_events : Key(e) \in keys /\ SlotOf(e) = slot
    THEN (CHOOSE e \in place_market_order_events :
              Key(e) \in keys /\ SlotOf(e) = slot).size
    ELSE (CHOOSE e \in place_swap_order_events :
              Key(e) \in keys /\ SlotOf(e) = slot).max_base
         \div (CHOOSE m \in market_registration_events : m.market_id = slot[1]).lot_size

\* C6: after a committed tick that folded a fill into a market or swap
\* order the order is closed, unless the tick also handled a cancel of it:
\* then it is cancelled, total_filled and remaining_size are as the fills
\* left them and last_updated_at is the cancel's time.  The cancels of a tick
\* are handled after all its fills and changes.
C6_ClosingPolicy ==
    [][TickCommitted =>
          /\ \A i, j \in 1..Len(applied') :
                 (applied'[i] \in CancelKeys /\ applied'[j] \in FillKeys \cup ChangeKeys)
                     => j < i
          /\ \A after \in user_history' :
                 LET slot == SlotOf(after)
                     folded == FoldedFills(Pending, slot)
                     cancels == CancelsOf(Pending, slot)
                     filled_before == IF HasRow(user_history, slot)
                                      THEN RowAt(user_history, slot).total_filled
                                      ELSE 0
                     size_before == IF HasRow(user_history, slot)
                                    THEN RowAt(user_history, slot).remaining_size
                                    ELSE PlacedSize(Pending, slot)
                 IN (after.order_type # "limit" /\ folded # {}) =>
                        IF cancels = {}
                        THEN after.order_status = "closed"
                        ELSE /\ after.order_status = "cancelled"
                             /\ after.last_updated_at \in {c.time : c \in cancels}
                             /\ after.total_filled = filled_before + SumSize(folded)
                             /\ ChangesOf(Pending, slot) = {} =>
                                    after.remaining_size = size_before - SumSize(folded)]_vars

\* One tick placed a market order, folded a fill into it and cancelled it.
C6_Witness ==
    /\ result = "ok"
    /\ Len(applied) = 3
    /\ applied[2] \in FillKeys
    /\ applied[3] \in CancelKeys
    /\ \E r \in user_history :
          /\ r.order_type = "market"
          /\ r.order_status = "cancelled"
          /\ r.total_filled > 0
          /\ r.remaining_size > 0
          /\ \E c \in cancel_order_events : c.time = r.last_updated_at

\* The placement events of the stream that fills rows of the given type.
PlacementsOfType(order_type) ==
    IF order_type = "limit" THEN place_limit_order_events
    ELSE IF order_type = "market" THEN place_market_order_events
    ELSE place_swap_order_events

ExtensionOfType(order_type) ==
    IF order_type = "limit" THEN {SlotOf(l) : l \in user_history_limit}
    ELSE IF order_type = "market" THEN {SlotOf(l) : l \in user_history_market}
    ELSE {SlotOf(l) : l \in user_history_swap}

\* The ledgered keys above key k.
LedgerAfter(k) == {j \in Ledger : LexLess(k, j)}

\* C4: in every committed state the derived tables reflect the ledgered
\* events and no others.  A tick that commits leaves no event unledgered;
\* every ledgered placement has its row and its extension row, and every row
\* comes from a ledgered placement; total_filled counts every ledgered folded
\* fill above the placement and nothing but ledgered folded fills; a ledgered
\* cancel above the placement leaves the order not open; a cancelled status
\* and a last_updated_at come from a ledgered event of the order.
C4_LedgerConsistency ==
    /\ result = "ok" => Pending = {}
    /\ \A t \in {"limit", "market", "swap"} :
          \A e \in PlacementsOfType(t) :
              Key(e) \in Ledger =>
                  /\ \E r \in user_history :
                        /\ SlotOf(r) = SlotOf(e)
                        /\ r.order_type = t
                        /\ r.created_at = e.time
                  /\ SlotOf(e) \in ExtensionOfType(t)
    /\ \A r \in user_history :
          /\ \E e \in PlacementsOfType(r.order_type) :
                /\ Key(e) \in Ledger
                /\ SlotOf(e) = SlotOf(r)
                /\ e.time = r.created_at
                /\ r.total_filled >= SumSize(FoldedFills(LedgerAfter(Key(e)), SlotOf(r)))
                /\ CancelsOf(LedgerAfter(Key(e)), SlotOf(r)) # {}
                       => r.order_status # "open"
          /\ r.total_filled <= SumSize(FoldedFills(Ledger, SlotOf(r)))
          /\ r.order_status = "cancelled" => CancelsOf(Ledger, SlotOf(r)) # {}
          /\ r.last_updated_at # Null =>
                 r.last_updated_at \in
                     {f.time : f \in FoldedFills(Ledger, SlotOf(r))}
                     \cup {c.time : c \in ChangesOf(Ledger, SlotOf(r))}
                     \cup {c.time : c \in CancelsOf(Ledger, SlotOf(r))}

\* A fill waits unledgered for an order whose row shows one ledgered fill.
C4_Witness ==
    /\ result = "none"
    /\ \E r \in user_history :
          /\ r.total_filled > 0
          /\ FoldedFills(Pending, SlotOf(r)) # {}
          /\ r.total_filled = SumSize(FoldedFills(Ledger, SlotOf(r)))

\* The six input tables, and their events among the first n of the history.
Tables ==
    [fill_events |-> fill_events,
     change_order_size_events |-> change_order_size_events,
     cancel_order_events |-> cancel_order_events,
     place_limit_order_events |-> place_limit_order_events,
     place_market_order_events |-> place_market_order_events,
     place_swap_order_events |-> place_swap_order_events]

UpTo(T, n) == [name \in DOMAIN T |-> {e \in T[name] : KeyIndex(e) < n}]

EmptyDerived ==
    [user_history |-> {}, user_history_limit |-> {}, user_history_market |-> {},
     user_history_swap |-> {}, aggregated_events |-> {}]

\* The derived tables after a tick that ended as tx: as written on a commit,
\* as before on an error.
Outcome(db, tx) ==
    IF tx.ok
    THEN [user_history |-> tx.user_history,
          user_history_limit |-> tx.user_history_limit,
          user_history_market |-> tx.user_history_market,
          user_history_swap |-> tx.user_history_swap,
          aggregated_events |-> tx.aggregated_events]
    ELSE db

\* Every result of one tick, free of store errors, on derived tables db and
\* input tables T.
TickOutcomes(db, T) ==
    {Outcome(db, process_and_save_internal(
                     db,
                     LoadFills(T.fill_events, db.aggregated_events),
                     LoadChanges(T.change_order_size_events, db.aggregated_events),
                     c, l, m, w, 0)) :
        c \in LoadCancels(T.cancel_order_events, db.aggregated_events),
        l \in LoadLimits(T.place_limit_order_events, db.aggregated_events),
        m \in LoadMarkets(T.place_market_order_events, db.aggregated_events),
        w \in LoadSwaps(T.place_swap_order_events, db.aggregated_events)}

OneTick(T) == TickOutcomes(EmptyDerived, T)

TwoTicks(T, n) == UNION {TickOutcomes(d, T) : d \in TickOutcomes(EmptyDerived, UpTo(T, n))}

PlacementKeysOf(slot) ==
    {Key(e) : e \in {x \in place_limit_order_events : SlotOf(x) = slot}}
    \cup {Key(e) : e \in {x \in place_market_order_events : SlotOf(x) = slot}}
    \cup {Key(e) : e \in {x \in place_swap_order_events : SlotOf(x) = slot}}

\* The keys of the fills, changes and cancels that name the order at slot.
TouchingKeysOf(slot) ==
    {Key(f) : f \in {x \in fill_events :
                        /\ x.market_id = slot[1]
                        /\ (x.maker_order_id = slot[2] \/ x.taker_order_id = slot[2])}}
    \cup {Key(c) : c \in ChangesOf(AllKeys, slot)}
    \cup {Key(c) : c \in CancelsOf(AllKeys, slot)}

\* The log has each order's events in the order of its life: the placement
\* first and a cancel last.
LifecycleOrder ==
    \A slot \in OrderSlots :
        /\ \A p \in PlacementKeysOf(slot), e \in TouchingKeysOf(slot) : LexLess(p, e)
        /\ \A c \in CancelsOf(AllKeys, slot) :
               \A e \in TouchingKeysOf(slot) \ {Key(c)} : LexLess(e, Key(c))

\* The single tick over the whole log commits.
SingleTickCommits == \A one \in OneTick(Tables) : one.aggregated_events # {}

\* C2 as stated, for the logs whose single tick commits: for every split of
\* the log into a prefix and the rest, a tick over the prefix and then a tick
\* over the whole log give the derived tables and the ledger that a single
\* tick over the whole log gives.
C2_PartitionEquivalence_AsStated ==
    SingleTickCommits =>
        \A n \in 0..Cardinality(AllKeys) :
            \A two \in TwoTicks(Tables, n), one \in OneTick(Tables) : two = one

\* C2 amended: the same, for the logs in lifecycle order whose single tick
\* commits.
C2_PartitionEquivalence ==
    (LifecycleOrder /\ SingleTickCommits)
        => \A n \in 0..Cardinality(AllKeys) :
               \A two \in TwoTicks(Tables, n), one \in OneTick(Tables) : two = one


\* Two committed ticks, the second over a fill and a cancel that arrived
\* after the first, left what the single tick over the whole log leaves.
C2_Witness ==
    /\ result = "ok"
    /\ Len(applied) = 2
    /\ Cardinality(Ledger) = 3
    /\ LifecycleOrder
    /\ Stored \in OneTick(Tables)
    /\ \E r \in user_history : r.order_status = "cancelled" /\ r.total_filled > 0

\* The folded fills and the changes of the order at slot among keys.
SizeEventKeys(keys, slot) ==
    {Key(f) : f \in FoldedFills(keys, slot)} \cup {Key(c) : c \in ChangesOf(keys, slot)}

LeastKey(keys) == CHOOSE k \in keys : \A j \in keys \ {k} : LexLess(k, j)

\* The remaining size the chain's history gives an order of the given size
\* after its fills and changes at keys, taken in (txn_version, event_idx)
\* order.
RECURSIVE ChainRemaining(_, _, _)
ChainRemaining(size, keys, slot) ==
    IF keys = {} THEN size
    ELSE LET k == LeastKey(keys)
         IN IF k \in FillKeys
            THEN ChainRemaining(size - SumSize(FoldedFills({k}, slot)), keys \ {k}, slot)
            ELSE ChainRemaining(LastOf(ChangesOf({k}, slot)).new_size, keys \ {k}, slot)

\* No fill of that history is larger than what it finds remaining.
RECURSIVE ChainValid(_, _, _)
ChainValid(size, keys, slot) ==
    IF keys = {} THEN TRUE
    ELSE LET k == LeastKey(keys)
         IN IF k \in FillKeys
            THEN /\ SumSize(FoldedFills({k}, slot)) <= size
                 /\ ChainValid(size - SumSize(FoldedFills({k}, slot)), keys \ {k}, slot)
            ELSE ChainValid(LastOf(ChangesOf({k}, slot)).new_size, keys \ {k}, slot)

\* The placement event a row comes from, and the size it placed.
PlacementOf(r) ==
    CHOOSE e \in PlacementsOfType(r.order_type) :
        SlotOf(e) = SlotOf(r) /\ e.time = r.created_at

SizePlaced(r) ==
    IF r.order_type = "limit" THEN PlacementOf(r).initial_size
    ELSE IF r.order_type = "market" THEN PlacementOf(r).size
    ELSE PlacementOf(r).max_base
         \div (CHOOSE m \in market_registration_events : m.market_id = r.market_id).lot_size

\* All fills and changes of the row's order are ledgered.
FullyAggregated(r) == SizeEventKeys(Pending, SlotOf(r)) = {}

\* C10 as stated: in every committed state remaining_size >= 0 for every row
\* whose placement and later fills and changes are all aggregated.
C10_RemainingNonNegative_AsStated ==
    \A r \in user_history : FullyAggregated(r) => r.remaining_size >= 0

\* C10 amended: the same for the rows whose order has no fill or change
\* below its placement and no fill larger than the size the chain's history
\* leaves it; remaining_size is then the size that history gives.
C10_RemainingNonNegative ==
    \A r \in user_history :
        LET slot == SlotOf(r)
            placed == Key(PlacementOf(r))
            history == SizeEventKeys(LedgerAfter(placed), slot)
        IN (/\ FullyAggregated(r)
            /\ SizeEventKeys(AllKeys, slot) = history
            /\ ChainValid(SizePlaced(r), history, slot))
               => /\ r.remaining_size >= 0
                  /\ r.remaining_size = ChainRemaining(SizePlaced(r), history, slot)

\* An order filled to 0 and then resized has all its history aggregated.
C10_Witness ==
    /\ result = "ok"
    /\ \E r \in user_history :
          LET slot == SlotOf(r)
              history == SizeEventKeys(LedgerAfter(Key(PlacementOf(r))), slot)
          IN /\ FullyAggregated(r)
             /\ SizeEventKeys(AllKeys, slot) = history
             /\ ChainValid(SizePlaced(r), history, slot)
             /\ FoldedFills(Ledger, slot) # {}
             /\ ChangesOf(Ledger, slot) # {}
             /\ r.total_filled = SizePlaced(r)
             /\ r.remaining_size > 0

\* The limit placements among keys of the order at slot.
LimitPlacementsOf(keys, slot) ==
    {e \in place_limit_order_events : Key(e) \in keys /\ SlotOf(e) = slot}

\* The stamp a limit order has when a tick starts to apply fills and changes:
\* the stored one, or the one its placement in this tick gives it.
StampBefore(slot) ==
    IF HasRow(user_history_limit, slot)
    THEN RowAt(user_history_limit, slot).last_increase_stamp
    ELSE LET e == CHOOSE x \in LimitPlacementsOf(Pending, slot) : TRUE
         IN PriorityStamp(e.txn_version, e.event_idx)

\* The stamp is as it was, or a greater one set by a change the tick handled.
StampMovedUp(slot) ==
    LET after == RowAt(user_history_limit', slot).last_increase_stamp
    IN \/ after = StampBefore(slot)
       \/ /\ BigLess(StampBefore(slot), after)
          /\ \E c \in ChangesOf(Pending, slot) :
                 after = IncreaseStamp(c.txn_version, c.event_idx)

\* C11 as stated: over every committed tick the last_increase_stamp of every
\* limit order, placed before or by the tick, stays as it was or is set by a
\* change to a strictly greater value.
C11_PriorityMonotonicity_AsStated ==
    [][TickCommitted =>
          \A l \in user_history_limit' : StampMovedUp(SlotOf(l))]_vars

\* C11 amended: the same for the orders none of whose changes handled by the
\* tick has a key below the key of a placement handled by the same tick.
C11_PriorityMonotonicity ==
    [][TickCommitted =>
          \A l \in user_history_limit' :
              (\A e \in LimitPlacementsOf(Pending, SlotOf(l)) :
                   \A c \in ChangesOf(Pending, SlotOf(l)) : LexLess(Key(e), Key(c)))
                  => StampMovedUp(SlotOf(l))]_vars

\* A tick that handled one change alone raised the stamp of a limit order
\* above the stamp of its placement.
C11_Witness ==
    /\ result = "ok"
    /\ Len(applied) = 1
    /\ \E l \in user_history_limit, c \in change_order_size_events :
          /\ Key(c) = applied[1]
          /\ SlotOf(c) = SlotOf(l)
          /\ l.last_increase_stamp = IncreaseStamp(c.txn_version, c.event_idx)
          /\ \E e \in LimitPlacementsOf(Ledger, SlotOf(l)) :
                 BigLess(PriorityStamp(e.txn_version, e.event_idx), l.last_increase_stamp)

\* C12: a change handled alone for its order by a committed tick (no folded
\* fill and no cancel of that order in the tick) sets remaining_size to
\* new_size and last_updated_at to the event time and leaves total_filled,
\* order_status and the other columns as they were; the limit extension row
\* gets the stamp of the change iff the order is a limit order and new_size
\* is greater than the remaining size before, and is otherwise unchanged; no
\* row of the market and swap extensions changes.
C12_ChangeApplication ==
    [][TickCommitted =>
          \A r \in user_history :
              LET slot == SlotOf(r)
                  changes == ChangesOf(Pending, slot)
                  c == CHOOSE x \in changes : TRUE
                  after == RowAt(user_history', slot)
              IN (/\ Cardinality(changes) = 1
                  /\ FoldedFills(Pending, slot) = {}
                  /\ CancelsOf(Pending, slot) = {})
                     => /\ after = [r EXCEPT !.remaining_size = c.new_size,
                                             !.last_updated_at = c.time]
                        /\ r.order_type = "limit" =>
                               RowAt(user_history_limit', slot).last_increase_stamp =
                                   IF c.new_size > r.remaining_size
                                   THEN PriorityStamp(c.txn_version, c.event_idx)
                                   ELSE RowAt(user_history_limit, slot).last_increase_stamp
                        /\ user_history_market \subseteq user_history_market'
                        /\ user_history_swap \subseteq user_history_swap']_vars

\* A change to the size it already had left a limit order with the stamp of
\* its placement, and set last_updated_at.
C12_Witness ==
    /\ result = "ok"
    /\ Len(applied) = 1
    /\ \E r \in user_history, c \in change_order_size_events :
          /\ Key(c) = applied[1]
          /\ SlotOf(c) = SlotOf(r)
          /\ r.order_type = "limit"
          /\ r.total_filled = 0
          /\ r.remaining_size = c.new_size
          /\ r.last_updated_at = c.time
          /\ \E e \in LimitPlacementsOf(Ledger, SlotOf(r)) :
                /\ e.initial_size = c.new_size
                /\ RowAt(user_history_limit, SlotOf(r)).last_increase_stamp =
                       PriorityStamp(e.txn_version, e.event_idx)

OrderTypes == {"limit", "market", "swap"}

ExtensionTable(order_type) ==
    IF order_type = "limit" THEN user_history_limit
    ELSE IF order_type = "market" THEN user_history_market
    ELSE user_history_swap

\* The placements among keys, of any stream, of the order at slot.
PlacementsOf(keys, slot) ==
    UNION {{[type |-> t, key |-> Key(e)] :
               e \in {x \in PlacementsOfType(t) : Key(x) \in keys /\ SlotOf(x) = slot}} :
           t \in OrderTypes}

\* C13: in every committed state each (market_id, order_id) has at most one
\* UserHistory row, and each row has exactly one extension row, in the table
\* its order_type names, and none in the two other tables; and a tick that
\* loads a placement of an order that has a row, or two placements of one
\* order, fails.
C13_ExtensionRows ==
    /\ [](\A r \in user_history :
              /\ Cardinality({q \in user_history : SlotOf(q) = SlotOf(r)}) = 1
              /\ \A t \in OrderTypes :
                     Cardinality({l \in ExtensionTable(t) : SlotOf(l) = SlotOf(r)})
                         = IF t = r.order_type THEN 1 ELSE 0)
    /\ [][UNCHANGED inputs =>
             \A slot \in OrderSlots :
                 (\/ Cardinality(PlacementsOf(Pending, slot)) > 1
                  \/ (PlacementsOf(Pending, slot) # {} /\ HasRow(user_history, slot)))
                     => result' = "err"]_vars

\* A tick failed on a second placement, from another stream, of an order
\* that keeps its one row and its one extension row.
C13_Witness ==
    /\ result = "err"
    /\ \E r \in user_history :
          /\ \E p \in PlacementsOf(Pending, SlotOf(r)) : p.type # r.order_type
          /\ PlacementsOf(Ledger, SlotOf(r)) # {}

\* C14: ready() is true as long as no tick has completed successfully, also
\* after failed ticks; from the completion of a successful tick it is false
\* until 5 seconds have passed, and true afterwards.
C14_ReadinessGate ==
    ready <=> (completed = Null \/ completed + ReadyDelay < now)

\* The keys of the events an open transaction has handled.
HandledBy(t) == {t.tx.applied[n] : n \in 1..Len(t.tx.applied)}

\* C15: with two instances whose transactions overlap in time, a transaction
\* commits only events that are not in the ledger, and adds exactly them to
\* it, so that of two transactions that handled the same event at most one
\* commits; a transaction that fails to commit changes no table; a
\* transaction begun after a commit does not handle the committed events; and
\* in every committed state no row counts a fill twice, or a fill that is not
\* in the ledger, and each row counts every ledgered fill above its placement.
C15_RacingInstances ==
    /\ [](\A r \in user_history :
              /\ r.total_filled <= SumSize(FoldedFills(Ledger, SlotOf(r)))
              /\ \E e \in LimitPlacementsOf(Ledger, SlotOf(r)) :
                     r.total_filled >=
                         SumSize(FoldedFills(LedgerAfter(Key(e)), SlotOf(r))))
    /\ [][\A i \in Instances :
             /\ (open[i] # Idle /\ open'[i] = Idle) =>
                    IF result' = "ok"
                    THEN /\ HandledBy(open[i]) \cap Ledger = {}
                         /\ Ledger' = Ledger \cup HandledBy(open[i])
                    ELSE UNCHANGED derived
             /\ (open[i] = Idle /\ open'[i] # Idle) =>
                    /\ HandledBy(open'[i]) \cap Ledger = {}
                    /\ UNCHANGED derived]_vars

\* Instance 1 has a transaction open that folded a fill which instance 2,
\* racing, has committed since.
C15_Witness ==
    /\ result = "ok"
    /\ open[1] # Idle
    /\ open[2] = Idle
    /\ \E f \in fill_events :
          /\ Key(f) \in HandledBy(open[1]) \cap Ledger
          /\ \E r \in user_history :
                /\ SlotOf(r) = <<f.market_id, f.maker_order_id>>
                /\ r.total_filled = f.size
          /\ \E r \in open[1].tx.user_history :
                /\ SlotOf(r) = <<f.market_id, f.maker_order_id>>
                /\ r.total_filled = f.size

\* The ledger rows of a set of keys.
LedgerRows(keys) == {[txn_version |-> k[1], event_idx |-> k[2]] : k \in keys}

\* Every unaggregated event is a cancel of an order that has no row.
OnlyUnknownCancels ==
    /\ Pending # {}
    /\ Pending \subseteq CancelKeys
    /\ \A c \in cancel_order_events :
           Key(c) \in Pending => ~HasRow(user_history, SlotOf(c))

\* C16: a tick whose events are cancels of orders without a row commits (no
\* store error given), changes no row and adds the cancels to the ledger; the
\* cancel of an order that has no row when it is applied is ledgered by the
\* tick that handles it and creates no row; and an order placed by a later
\* tick, with no fill or cancel of it in that tick, is open whatever cancels
\* of it are in the ledger.
C16_CancelUnknownOrder ==
    /\ [](OnlyUnknownCancels =>
              \A out \in TickOutcomes(Stored, Tables) :
                  out = [Stored EXCEPT !.aggregated_events = @ \cup LedgerRows(Pending)])
    /\ [][TickCommitted =>
             /\ \A c \in cancel_order_events :
                    (/\ Key(c) \in Pending
                     /\ ~HasRow(user_history, SlotOf(c))
                     /\ PlacementsOf(Pending, SlotOf(c)) = {})
                        => /\ Key(c) \in Ledger'
                           /\ ~HasRow(user_history', SlotOf(c))
             /\ \A slot \in OrderSlots :
                    (/\ PlacementsOf(Pending, slot) # {}
                     /\ CancelsOf(Pending, slot) = {}
                     /\ FoldedFills(Pending, slot) = {})
                        => RowAt(user_history', slot).order_status = "open"]_vars

\* An order placed by a tick is open although a cancel of it, handled by an
\* earlier tick, is in the ledger.
C16_Witness ==
    /\ result = "ok"
    /\ \E r \in user_history :
          /\ r.order_status = "open"
          /\ PlacementsOf(AppliedKeys, SlotOf(r)) # {}
          /\ CancelsOf(Ledger \ AppliedKeys, SlotOf(r)) # {}

\* The size a placement event of the given stream places.
SizeOfPlacement(order_type, e) ==
    IF order_type = "limit" THEN e.initial_size
    ELSE IF order_type = "market" THEN e.size
    ELSE e.max_base
         \div (CHOOSE m \in market_registration_events :
                   m.market_id = e.market_id).lot_size

\* C17: a placement handled by a committed tick, with no folded fill, change
\* or cancel of its order in the same tick, leaves the row of the order with
\* created_at the event time, last_updated_at null, total_filled 0,
\* order_status open, the order_type of its stream and the remaining size of
\* that stream (initial_size, size, or max_base / lot_size), and one
\* extension row in the table of its stream; a limit order's stamp is the
\* priority stamp of the placement.
C17_PlacementRecording ==
    [][TickCommitted =>
          \A t \in OrderTypes :
              \A e \in PlacementsOfType(t) :
                  (/\ Key(e) \in Pending
                   /\ FoldedFills(Pending, SlotOf(e)) = {}
                   /\ ChangesOf(Pending, SlotOf(e)) = {}
                   /\ CancelsOf(Pending, SlotOf(e)) = {})
                      => /\ [market_id |-> e.market_id,
                             order_id |-> e.order_id,
                             created_at |-> e.time,
                             last_updated_at |-> Null,
                             total_filled |-> 0,
                             remaining_size |-> SizeOfPlacement(t, e),
                             order_status |-> "open",
                             order_type |-> t] \in user_history'
                         /\ t = "limit" =>
                                [market_id |-> e.market_id, order_id |-> e.order_id,
                                 last_increase_stamp |->
                                     PriorityStamp(e.txn_version, e.event_idx)]
                                    \in user_history_limit'
                         /\ t = "market" =>
                                [market_id |-> e.market_id, order_id |-> e.order_id]
                                    \in user_history_market'
                         /\ t = "swap" =>
                                [market_id |-> e.market_id, order_id |-> e.order_id,
                                 max_base |-> e.max_base] \in user_history_swap']_vars

\* One tick placed a limit order, a market order and a swap, the swap with
\* the remaining size max_base / lot_size.
C17_Witness ==
    /\ result = "ok"
    /\ Len(applied) = 3
    /\ \E l \in user_history, m \in user_history, w \in user_history :
          /\ l.order_type = "limit" /\ m.order_type = "market"
          /\ w.order_type = "swap"
          /\ \E e \in place_swap_order_events :
                /\ SlotOf(e) = SlotOf(w)
                /\ w.remaining_size * 2 = e.max_base
                /\ w.created_at = e.time
                /\ w.last_updated_at = Null /\ w.order_status = "open"

\* The unaggregated swap placements whose market has no registration.
UnregisteredSwaps ==
    {w \in place_swap_order_events :
        /\ Key(w) \in Pending
        /\ ~\E m \in market_registration_events : m.market_id = w.market_id}

\* C18: every tick that loads a swap placement whose market has no
\* registration fails and leaves the derived tables and the ledger as they
\* were, the swap's extension row and the other events of the tick included;
\* so such a swap is never in the ledger and has no row, as long as the
\* registration is missing.
C18_MissingRegistration ==
    /\ [](\A w \in place_swap_order_events :
              (~\E m \in market_registration_events : m.market_id = w.market_id)
                  => /\ Key(w) \notin Ledger
                     /\ ~HasRow(user_history_swap, SlotOf(w))
                     /\ ~\E r \in user_history :
                            SlotOf(r) = SlotOf(w) /\ r.order_type = "swap")
    /\ [][(UNCHANGED inputs /\ UnregisteredSwaps # {}) =>
             (result' = "err" /\ UNCHANGED derived /\ Pending' = Pending)]_vars

\* A tick failed on a swap of the market without registration; a limit
\* placement loaded with it is still unaggregated, and the rows of an earlier
\* tick are in place.
C18_Witness ==
    /\ result = "err"
    /\ UnregisteredSwaps # {}
    /\ \E e \in place_limit_order_events : Key(e) \in Pending
    /\ user_history # {}

\* (txn_version, event_idx) of a is below that of b, lexicographically.
EventBefore(a, b) ==
    \/ a.txn_version < b.txn_version
    \/ (a.txn_version = b.txn_version /\ BigLess(a.event_idx, b.event_idx))

\* C19: the placement path and the size-increase path give every event the
\* same stamp; for an event_idx below 2^64 the stamp has txn_version above
\* bit 64 and event_idx below it; and for two events with event_idx below
\* 2^64 the stamps compare as the (txn_version, event_idx) pairs do.
C19_StampOrder ==
    stamps # <<>> =>
        LET a == stamp_args.a
            b == stamp_args.b
        IN /\ stamps.a.limit = stamps.a.change
           /\ stamps.b.limit = stamps.b.change
           /\ (a.event_idx.hi = 0 /\ b.event_idx.hi = 0) =>
                  /\ stamps.a.limit = [hi |-> a.txn_version, lo |-> a.event_idx.lo]
                  /\ BigLess(stamps.a.limit, stamps.b.limit) <=> EventBefore(a, b)

\* The stamps of two events are computed: the first has the smaller
\* txn_version and the greater event_idx, and the smaller stamp.
C19_Witness ==
    /\ stamps # <<>>
    /\ stamp_args.a.event_idx.hi = 0
    /\ stamp_args.b.event_idx.hi = 0
    /\ 0 < stamp_args.a.txn_version
    /\ stamp_args.a.txn_version < stamp_args.b.txn_version
    /\ stamp_args.a.event_idx.lo > stamp_args.b.event_idx.lo
    /\ BigLess(stamps.a.change, stamps.b.limit)

\* The keys of the six tables, one set for each batch a tick loads.
Batches ==
    {EventKeys(place_limit_order_events), EventKeys(place_market_order_events),
     EventKeys(place_swap_order_events), FillKeys, ChangeKeys, CancelKeys}

\* C20: a committed tick handles exactly the events that are not in the
\* ledger, and the events of each of its six batches in ascending
\* (txn_version, event_idx) order.
C20_LoaderOrdering ==
    [][TickCommitted =>
          /\ {applied'[i] : i \in 1..Len(applied')} = Pending
          /\ \A batch \in Batches :
                 \A i, j \in 1..Len(applied') :
                     (i < j /\ applied'[i] \in batch /\ applied'[j] \in batch)
                         => LexLess(applied'[i], applied'[j])]_vars

\* The unaggregated changes of orders that have no row and no unaggregated
\* placement: a tick started now finds no row when it applies them.
OrphanChanges ==
    {c \in change_order_size_events :
        /\ Key(c) \in Pending
        /\ ~HasRow(user_history, SlotOf(c))
        /\ PlacementsOf(Pending, SlotOf(c)) = {}}

\* Every unaggregated event is a fill; none of them names an order with a
\* row.
OnlyUnknownFills ==
    /\ Pending # {}
    /\ Pending \subseteq FillKeys
    /\ \A f \in fill_events :
           Key(f) \in Pending =>
               /\ ~HasRow(user_history, <<f.market_id, f.maker_order_id>>)
               /\ ~HasRow(user_history, <<f.market_id, f.taker_order_id>>)

\* C21: every tick that loads a change of an order which has no row and no
\* placement in the tick fails, and leaves the derived tables, the ledger and
\* the set of unaggregated events as they were; so, as long as no placement
\* of the order has arrived, the change is not in the ledger and neither is
\* any event that was unaggregated when it arrived or that arrived after it.
\* A tick whose events are fills of orders without a row commits instead,
\* changes no row and ledgers the fills.
C21_ChangeUnknownOrder ==
    /\ [][(UNCHANGED inputs /\ OrphanChanges # {}) =>
             (result' = "err" /\ UNCHANGED derived /\ Pending' = Pending)]_vars
    /\ [](\A c \in change_order_size_events :
              PlacementsOf(AllKeys, SlotOf(c)) = {} =>
                  /\ Key(c) \notin Ledger
                  /\ \A k \in Ledger : LexLess(k, Key(c))
                  /\ \A k \in AllKeys :
                         LexLess(Key(c), k) => k \in Pending)
    /\ [](OnlyUnknownFills =>
              \A out \in TickOutcomes(Stored, Tables) :
                  out = [Stored EXCEPT !.aggregated_events = @ \cup LedgerRows(Pending)])

\* A tick failed on the change of an order that was never placed; the
\* placement of another order that arrived after the change is unaggregated,
\* and an event aggregated before the change arrived is in the ledger.
C21_Witness ==
    /\ result = "err"
    /\ Ledger # {}
    /\ \E c \in OrphanChanges :
          /\ PlacementsOf(AllKeys, SlotOf(c)) = {}
          /\ \E slot \in OrderSlots :
                 \E p \in PlacementsOf(Pending, slot) : LexLess(Key(c), p.key)

\* C22: over every step, an order that is closed or cancelled keeps its row
\* and is not open afterwards; and over every committed tick that handles no
\* change of an order, total_filled + remaining_size of its row is what it
\* was before the tick, or, for an order the tick placed, the size placed.
C22_StatusAndSizeSum ==
    [][/\ \A r \in user_history :
              r.order_status # "open" =>
                  /\ HasRow(user_history', SlotOf(r))
                  /\ RowAt(user_history', SlotOf(r)).order_status # "open"
       /\ TickCommitted =>
              \A after \in user_history' :
                  LET slot == SlotOf(after)
                      before == IF HasRow(user_history, slot)
                                THEN RowAt(user_history, slot).total_filled
                                     + RowAt(user_history, slot).remaining_size
                                ELSE PlacedSize(Pending, slot)
                  IN ChangesOf(Pending, slot) = {} =>
                         after.total_filled + after.remaining_size = before]_vars

\* A tick that handled one fill alone folded it into a limit order that was
\* cancelled before: the order is still cancelled, with a remainder, and the
\* fill moved its size from remaining_size to total_filled.
C22_Witness ==
    /\ result = "ok"
    /\ Len(applied) = 1
    /\ \E r \in user_history :
          /\ FoldedFills(AppliedKeys, SlotOf(r)) # {}
          /\ CancelsOf(Ledger, SlotOf(r)) # {}
          /\ r.order_type = "limit"
          /\ r.order_status = "cancelled"
          /\ r.remaining_size > 0
          /\ r.total_filled + r.remaining_size = SizePlaced(r)

====
